---- MODULE Spec2Model ----
(***************************************************************************)
(* A model of loadconfig.c: the recursive configuration file loader.       *)
(*                                                                         *)
(* Text is a sequence of characters, a character is a one-character        *)
(* string.  The call stack of ProcessConfigFile / ProcessConfigData is the *)
(* sequence `stack`; the fields of LoadState are the variables pFileName,  *)
(* lineno, required, verbose and workbuf.  `events` is the observable      *)
(* history of the run: what was printed, which calls were made to the      *)
(* variable server, and which lines were handled.                          *)
(***************************************************************************)
EXTENDS Integers, Sequences, FiniteSets, TLC

VARIABLES
    pc,          \* position of main: "start", "run", "done"
    stack,       \* active ProcessConfigFile calls, innermost last
    pFileName,   \* LoadState.pFileName
    lineno,      \* LoadState.lineno
    required,    \* LoadState.required
    verbose,     \* LoadState.verbose
    workbuf,     \* bytes of the shared memory object behind LoadState.workbuf
    store,       \* the variable server: name -> value
    rootData,    \* content of the file named on the command line
    nullAtEnd,   \* the C library's strtok_r leaves a null save pointer at the end
    calls,       \* history: the ProcessConfigFile calls made so far, in order
    events       \* observable history

vars == <<pc, stack, pFileName, lineno, required, verbose, workbuf, store,
          rootData, nullAtEnd, calls, events>>

-----------------------------------------------------------------------------
(* Bounds of the model *)

\* deepest nesting of ProcessConfigFile calls that is explored
MaxDepth == 5

\* number of lines that follow the @config line of the root file
MaxLines == 2

\* LoadState.workbufSize (option -w)
WorkbufSize == 16

-----------------------------------------------------------------------------
(* Characters, error codes and the null pointer *)

NUL == "NUL"
NL == "\n"
NULL == <<"NULL">>

EOK == "EOK"
EINVAL == "EINVAL"
ENOENT == "ENOENT"
ENOTSUP == "ENOTSUP"
EACCES == "EACCES"

CONFIG_TAG == <<"@", "c", "o", "n", "f", "i", "g">>

INCLUDE == <<"@", "i", "n", "c", "l", "u", "d", "e">>
REQUIRE == <<"@", "r", "e", "q", "u", "i", "r", "e">>
INCLUDEDIR == INCLUDE \o <<"d", "i", "r">>

-----------------------------------------------------------------------------
(* Text helpers *)

\* index of the first occurrence of character c in s, 0 when there is none
FirstIdx(s, c) ==
    LET at == {j \in 1..Len(s) : s[j] = c}
    IN  IF at = {} THEN 0 ELSE CHOOSE j \in at : \A k \in at : j <= k

\* strspn(s, d) for a one-character delimiter set
Strspn(s, d) ==
    CHOOSE k \in 0..Len(s) :
        /\ \A j \in 1..k : s[j] = d
        /\ (k = Len(s) \/ s[k + 1] # d)

\* strtok_r(s, d, &save) on a fresh string: the token and the save pointer
StrtokR(s, d, atEndNull) ==
    LET s1 == SubSeq(s, Strspn(s, d) + 1, Len(s))
        e == FirstIdx(s1, d)
        atEnd == IF atEndNull THEN NULL ELSE <<>>
    IN  IF s1 = <<>> THEN [tok |-> NULL, save |-> atEnd]
        ELSE IF e = 0 THEN [tok |-> s1, save |-> atEnd]
        ELSE [tok |-> SubSeq(s1, 1, e - 1), save |-> SubSeq(s1, e + 1, Len(s1))]

\* the C string that starts at the first byte of a buffer
CStr(buf) ==
    LET e == FirstIdx(buf, NUL)
    IN  IF e = 0 THEN buf ELSE SubSeq(buf, 1, e - 1)

\* join lines with newlines
RECURSIVE Join(_)
Join(ls) ==
    IF ls = <<>> THEN <<>>
    ELSE IF Len(ls) = 1 THEN ls[1]
    ELSE ls[1] \o <<NL>> \o Join(Tail(ls))

-----------------------------------------------------------------------------
(* The file system of the run *)

RootName == <<"R">>

\* a configuration file whose second line fails
FileA == Join(<< CONFIG_TAG \o <<" ", "x">>,
                 REQUIRE \o <<" ", "S">>,
                 <<"r", " ", "1">>,
                 <<"b", "=", "2">> >>)

\* a configuration file with lines of every kind; it ends with a newline
FileB == Join(<< CONFIG_TAG \o <<" ", "b">>,
                 <<"#", "c">>,
                 <<"q", " ", "1">>,
                 INCLUDE \o <<" ", "A">>,
                 <<"=">>,
                 INCLUDE \o <<" ", "N">>,
                 <<"@", "b", "o", "g", "u", "s">>,
                 REQUIRE \o <<" ", "N">>,
                 INCLUDE \o <<" ", "S">>,
                 <<"a", " ", "3">>,
                 <<>> >>)

\* a configuration file that includes itself
FileC == Join(<< CONFIG_TAG \o <<" ", "c">>,
                 <<"a", " ", "5">>,
                 INCLUDE \o <<" ", "C">>,
                 <<"b", "=", "5">> >>)

\* a line longer than the working buffer
LongLine ==
    <<"c", " ">> \o [k \in 1..(WorkbufSize + 1) |-> "x"]

\* a configuration file with a long line, assignments that lack a name or a
\* value, and directories; neither file M nor directory Q exists
FileG == Join(<< CONFIG_TAG \o <<" ", "g">>,
                 INCLUDE \o <<" ", "M">>,
                 LongLine,
                 <<"c">>,
                 <<"c", "=">>,
                 <<"=", "c">>,
                 INCLUDEDIR,
                 INCLUDEDIR \o <<" ", "Q">>,
                 INCLUDEDIR \o <<" ", "E">>,
                 <<"a", " ", " ", "7">>,
                 <<"b", "=", "7">> >>)

\* a line that fills the cleared part of the working buffer
FullLine ==
    <<"c", " ">> \o [k \in 1..(WorkbufSize - 2) |-> "y"]

\* a configuration file with a long line followed by a line that fills the
\* buffer
FileL == Join(<< CONFIG_TAG \o <<" ", "l">>,
                 LongLine,
                 FullLine >>)

\* a configuration file with assignments that have more than one delimiter,
\* a tab or = as first character, an @config line without description, a
\* file whose first line begins with the tag without being @config, and a
\* line that is a comment once it is expanded
FileH == Join(<< CONFIG_TAG \o <<" ", "h">>,
                 <<"a", "=", "b", "=", "c">>,
                 <<"a", " ", "b", "=", "c">>,
                 <<"=", "a", "=", "b">>,
                 <<"a", "\t", "7">>,
                 <<"b", " ", " ", " ", "8">>,
                 CONFIG_TAG,
                 INCLUDE \o <<" ", "X">>,
                 INCLUDE \o <<" ", "L">>,
                 FullLine,
                 <<"$", "{", "h", "}", "x">> >>)

\* not a configuration file: the tag is missing
FileN == Join(<< <<"a", " ", "1">>,
                 INCLUDE \o <<" ", "A">>,
                 <<"b", "=", "2">> >>)

\* not a configuration file: shorter than the tag
FileS == <<"@", "c", "o", "n", "f">>

FileX == Join(<< CONFIG_TAG \o <<"X", " ", "y">>,
                 <<"a", " ", "1">> >>)

FileDV == Join(<< CONFIG_TAG \o <<" ", "v">>, <<"b", "=", "4">> >>)

FileDW == <<"b", "=", "5", " ", "j", "u", "n", "k">>

FileEA == Join(<< CONFIG_TAG \o <<" ", "e">>, <<"a", " ", "6">> >>)

\* regular files other than the root file, by path
Files ==
    (<<"A">> :> FileA) @@ (<<"B">> :> FileB) @@ (<<"C">> :> FileC) @@
    (<<"G">> :> FileG) @@ (<<"H">> :> FileH) @@ (<<"L">> :> FileL) @@
    (<<"N">> :> FileN) @@
    (<<"S">> :> FileS) @@ (<<"X">> :> FileX) @@
    (<<"D", "/", "V">> :> FileDV) @@ (<<"D", "/", "W">> :> FileDW) @@
    (<<"E", "/", "A">> :> FileEA) @@ (<<"E", "/", "N">> :> FileN)

\* directories: path -> names of the files in them
Dirs ==
    (<<"D">> :> {<<"V">>, <<"W">>}) @@ (<<"E">> :> {<<"A">>, <<"N">>})

\* the entries every directory has besides its files: itself and its parent
DotEntries == {<<".">>, <<".", ".">>}

\* a path that names a directory
IsDirectory(path) == path \in DOMAIN Dirs \cup DotEntries

\* lines the root file is composed of
RootLines ==
    { <<"a", " ", "1">>,
      <<"b", "=", "2">>,
      <<"c", " ", "$", "{", "a", "}">>,
      <<"b", " ", "$", "{", "z", "}">>,
      INCLUDE \o <<" ", "B">>,
      INCLUDE \o <<" ", "C">>,
      REQUIRE \o <<" ", "M">> }

\* a root file that reaches every other file but C
RootG == Join(<< CONFIG_TAG \o <<" ", "r">>,
                 INCLUDE \o <<" ", "B">>,
                 REQUIRE \o <<" ", "G">> >>)

\* a root file that reaches files H, L and X
RootH == Join(<< CONFIG_TAG \o <<" ", "r">>,
                 INCLUDE \o <<" ", "H">> >>)

RECURSIVE SeqsUpTo(_, _)
SeqsUpTo(S, n) ==
    IF n = 0 THEN {<<>>}
    ELSE LET shorter == SeqsUpTo(S, n - 1)
         IN  shorter \cup {Append(q, x) : q \in {t \in shorter : Len(t) = n - 1}, x \in S}

\* contents the root file can have: well-formed ones, a file without the
\* tag, a file shorter than the tag, and no file at all
RootContents ==
    {Join(<<CONFIG_TAG \o <<" ", "r">>>> \o ls) : ls \in SeqsUpTo(RootLines, MaxLines)}
    \cup {RootG, RootH, FileN, FileS, NULL}

\* the bytes that can be read at a path: the content of a regular file,
\* nothing for a directory (it can be opened, every read of it fails), NULL
\* when there is nothing at the path
FileData(path) ==
    IF path = RootName THEN rootData
    ELSE IF path \in DOMAIN Files THEN Files[path]
    ELSE IF IsDirectory(path) THEN <<>>
    ELSE NULL

-----------------------------------------------------------------------------
(* The variable server and the template engine *)

\* variables the server knows at start, with their values
InitialStore ==
    (<<"a">> :> <<"0">>) @@ (<<"b">> :> <<"0">>) @@ (<<"c">> :> <<"0">>) @@
    (<<"r">> :> <<"0">>) @@ (<<"h">> :> <<"#">>)

\* variables the server refuses to write
ReadOnly == {<<"r">>}

\* VAR_SetNameValue: result code of setting name in server state st
VAR_SetNameValue(st, name) ==
    IF name \notin DOMAIN st THEN ENOENT
    ELSE IF name \in ReadOnly THEN EACCES
    ELSE EOK

\* the text begins with a reference ${name}
IsReference(s) ==
    Len(s) >= 2 /\ s[1] = "$" /\ s[2] = "{" /\ FirstIdx(s, "}") # 0

\* the name of the reference a text begins with, and the text behind it
ReferenceName(s) == SubSeq(s, 3, FirstIdx(s, "}") - 1)
AfterReference(s) == SubSeq(s, FirstIdx(s, "}") + 1, Len(s))

\* what the engine writes for a text: every ${name} is replaced by the
\* value of name; the output ends at a name that is not known
RECURSIVE ExpandedText(_, _)
ExpandedText(st, s) ==
    IF s = <<>> THEN <<>>
    ELSE IF IsReference(s)
    THEN IF ReferenceName(s) \in DOMAIN st
         THEN st[ReferenceName(s)] \o ExpandedText(st, AfterReference(s))
         ELSE <<>>
    ELSE <<s[1]>> \o ExpandedText(st, Tail(s))

\* what the engine returns for a text: an unknown name is an error
RECURSIVE ExpansionResult(_, _)
ExpansionResult(st, s) ==
    IF s = <<>> THEN EOK
    ELSE IF IsReference(s)
    THEN IF ReferenceName(s) \in DOMAIN st
         THEN ExpansionResult(st, AfterReference(s))
         ELSE ENOENT
    ELSE ExpansionResult(st, Tail(s))

\* TEMPLATE_StrToFile: the result code and the bytes written to the file
TEMPLATE_StrToFile(st, s) ==
    [rc |-> ExpansionResult(st, s), out |-> ExpandedText(st, s)]

-----------------------------------------------------------------------------
(* File reading *)

\* GetFileSize: st_size of lstat, 0 when lstat fails; a directory has the
\* size of its block of entries
GetFileSize(filename) ==
    IF FileData(filename) = NULL THEN 0
    ELSE IF IsDirectory(filename) THEN 4096
    ELSE Len(FileData(filename))

\* what the local buffer of IsConfigFile can hold before fread: it is not
\* initialised, so either bytes that differ from the tag or, left behind by
\* an earlier call, the tag
UninitBufs == {CONFIG_TAG, [k \in 1..Len(CONFIG_TAG) |-> "?"]}

\* the buffer of IsConfigFile after fread, whose return value is not
\* looked at: the bytes that were read, and behind them what buf held
BufAfterRead(content, buf) ==
    [k \in 1..Len(CONFIG_TAG) |-> IF k <= Len(content) THEN content[k] ELSE buf[k]]

\* IsConfigFile without the comparison of the tag
IsConfigFile_AnyFile(content) == TRUE

\* IsConfigFile: the first bytes of the buffer equal the tag
IsConfigFile(content) ==
    SubSeq(content, 1, Len(CONFIG_TAG)) = CONFIG_TAG

\* ReadConfigData: a zeroed buffer of n + 1 bytes into which up to n bytes
\* are read, as a C string
ReadConfigData(content, n) ==
    SubSeq(content, 1, IF n < Len(content) THEN n ELSE Len(content))

\* GetConfigData: the content of a configuration file, NULL otherwise; buf
\* is what the buffer of IsConfigFile holds when it is called
GetConfigData(filename, buf) ==
    IF filename # NULL /\ GetFileSize(filename) >= Len(CONFIG_TAG)
       /\ IsConfigFile(BufAfterRead(FileData(filename), buf))
    THEN ReadConfigData(FileData(filename), GetFileSize(filename))
    ELSE NULL

-----------------------------------------------------------------------------
(* State *)

Top == stack[Len(stack)]

\* the number of line ends before the start of the current line of a frame,
\* plus one: the position of the line in its file
LineIndex(fr) ==
    1 + Cardinality({k \in 1..fr.lineidx :
                        k > Len(fr.data) \/ fr.data[k] \in {NL, NUL}})

Init ==
    /\ pc = "start"
    /\ stack = <<>>
    /\ pFileName = RootName
    /\ lineno = 0
    /\ required = FALSE
    /\ verbose \in BOOLEAN
    /\ workbuf = [k \in 1..(WorkbufSize + 1) |-> NUL]
    /\ store = InitialStore
    /\ rootData \in RootContents
    /\ nullAtEnd \in BOOLEAN
    /\ calls = <<>>
    /\ events = <<>>

-----------------------------------------------------------------------------
(* History *)

\* an observation: what happened (ev, s1, s2, rc) and where: the fields of
\* LoadState at that moment, the active call and the position of its line
Event(ev, s1, s2, rc) ==
    [ev |-> ev, s1 |-> s1, s2 |-> s2, rc |-> rc,
     file |-> pFileName, line |-> lineno, req |-> required,
     call |-> IF stack = <<>> THEN 0 ELSE Top.call,
     idx |-> IF stack = <<>> \/ Top.data = NULL THEN 0 ELSE LineIndex(Top),
     from |-> 0]

\* LogError: "<error> in <file> on line <n>" on stderr
LogError(error) == Event("err", error, <<>>, EOK)

\* a line written to stdout
Out(what, arg1, arg2) == Event("out", what, <<arg1, arg2>>, EOK)

-----------------------------------------------------------------------------
(* ProcessConfigFile: entry and return *)

\* FileResult without the test of the required flag
FileResult_AlwaysError(data, req) ==
    IF data # NULL THEN EOK ELSE EINVAL

\* the result of ProcessConfigFile for a file that is not processed: EINVAL,
\* unless the file is not mandatory
FileResult(data, req) ==
    IF data # NULL THEN EOK
    ELSE IF req = FALSE THEN EOK
    ELSE EINVAL

\* a traversal that is not depth-first: the file named by a directive is put
\* aside and processed after the file it was named in has ended
ProcessConfigFile_Deferred(base, filename, evs) ==
  \E buf \in UninitBufs :
    LET data == GetConfigData(filename, buf)
        id == Len(calls) + 1
        frame == [call |-> id,
                  name |-> filename,
                  saveFileName |-> pFileName,
                  saveLineNumber |-> lineno,
                  data |-> data,
                  i |-> 0,
                  lineidx |-> 0,
                  done |-> FALSE,
                  result |-> FileResult(data, required'),
                  pc |-> IF data # NULL THEN "data" ELSE "ret",
                  dir |-> {},
                  rc |-> EOK]
        caller == IF base = <<>> THEN frame ELSE base[Len(base)]
        goesOn == IF caller.pc = "wait"
                  THEN [caller EXCEPT !.lineidx = caller.i + 1,
                                      !.i = caller.i + 1,
                                      !.pc = IF caller.done THEN "ret" ELSE "data"]
                  ELSE caller
    IN  /\ stack' = IF base = <<>> THEN <<frame>>
                    ELSE <<frame>> \o [base EXCEPT ![Len(base)] = goesOn]
        /\ pFileName' = filename
        /\ lineno' = 1
        /\ calls' = Append(calls,
              [file |-> filename,
               from |-> IF base = <<>> THEN 0 ELSE base[Len(base)].call,
               how |-> IF base = <<>> THEN "main" ELSE base[Len(base)].pc,
               at |-> IF base = <<>> THEN 0 ELSE LineIndex(base[Len(base)]),
               req |-> required',
               line |-> lineno,
               loaded |-> data # NULL,
               ret |-> "none"])
        /\ events' = events \o evs \o
              << Out("ProcessConfigFile", filename, <<>>),
                 [Event("enter", IF data # NULL THEN "loaded" ELSE "rejected",
                        IF base = <<>> THEN "main" ELSE base[Len(base)].pc, EOK)
                    EXCEPT !.call = id, !.file = filename, !.req = required',
                           !.from = IF base = <<>> THEN 0 ELSE base[Len(base)].call] >>

\* the part of ProcessConfigFile before the lines are processed: the caller's
\* file name and line number are saved in the new frame, the line number is
\* set to 1, the file is read.  base is the stack of the callers, evs what
\* the caller printed before the call; the required flag is read as the
\* caller has just set it; what the tag is compared with when nothing can be
\* read from the file is any of the values an uninitialised buffer can hold
ProcessConfigFile(base, filename, evs) ==
  \E buf \in UninitBufs :
    LET data == GetConfigData(filename, buf)
        id == Len(calls) + 1
        frame == [call |-> id,
                  name |-> filename,
                  saveFileName |-> pFileName,
                  saveLineNumber |-> lineno,
                  data |-> data,
                  i |-> 0,
                  lineidx |-> 0,
                  done |-> FALSE,
                  result |-> FileResult(data, required'),
                  pc |-> IF data # NULL THEN "data" ELSE "ret",
                  dir |-> {},
                  rc |-> EOK]
    IN  /\ stack' = Append(base, frame)
        /\ pFileName' = filename
        /\ lineno' = 1
        /\ calls' = Append(calls,
              [file |-> filename,
               from |-> IF base = <<>> THEN 0 ELSE base[Len(base)].call,
               how |-> IF base = <<>> THEN "main" ELSE base[Len(base)].pc,
               at |-> IF base = <<>> THEN 0 ELSE LineIndex(base[Len(base)]),
               req |-> required',
               line |-> lineno,
               loaded |-> data # NULL,
               ret |-> "none"])
        /\ events' = events \o evs \o
              << Out("ProcessConfigFile", filename, <<>>),
                 [Event("enter", IF data # NULL THEN "loaded" ELSE "rejected",
                        IF base = <<>> THEN "main" ELSE base[Len(base)].pc, EOK)
                    EXCEPT !.call = id, !.file = filename, !.req = required',
                           !.from = IF base = <<>> THEN 0 ELSE base[Len(base)].call] >>

\* main: the top level file is mandatory
Main ==
    /\ pc = "start"
    /\ pc' = "run"
    /\ required' = TRUE
    /\ ProcessConfigFile(stack, pFileName, <<>>)
    /\ UNCHANGED <<verbose, workbuf, store, rootData, nullAtEnd>>

\* ProcessConfigFile without the restore of the file name
RestoredFileName_NotRestored(fr) == fr.name

\* what ProcessConfigFile puts back into LoadState before it returns
RestoredFileName(fr) == fr.saveFileName

\* ProcessConfigFile without the restore of the line number
RestoredLineNumber_NotRestored(fr) == lineno

\* the line number ProcessConfigFile puts back
RestoredLineNumber(fr) == fr.saveLineNumber

\* a nested ProcessConfigFile that does not hand control back to the
\* directive that called it
Return_CallerNotResumed ==
    /\ pc = "run"
    /\ stack # <<>>
    /\ Top.pc = "ret"
    /\ pFileName' = RestoredFileName(Top)
    /\ lineno' = RestoredLineNumber(Top)
    /\ events' = events \o
          (IF Top.result # EOK
           THEN <<[Event("fail", "Failed to process", Top.name, Top.result)
                      EXCEPT !.file = RestoredFileName(Top),
                             !.line = RestoredLineNumber(Top)]>>
           ELSE <<>>) \o
          <<Event("return", "return", Top.name, Top.result)>>
    /\ IF Len(stack) = 1
       THEN /\ stack' = <<>>
            /\ pc' = "done"
       ELSE /\ stack' = SubSeq(stack, 1, Len(stack) - 1)
            /\ pc' = pc
    /\ calls' = [calls EXCEPT ![Top.call].ret = Top.result]
    /\ UNCHANGED <<required, verbose, workbuf, store, rootData, nullAtEnd>>

\* the end of ProcessConfigFile: the caller's file name and line number are
\* restored and the result is handed to the caller
Return ==
    /\ pc = "run"
    /\ stack # <<>>
    /\ Top.pc = "ret"
    /\ pFileName' = RestoredFileName(Top)
    /\ lineno' = RestoredLineNumber(Top)
    /\ events' = events \o
          (IF Top.result # EOK
           THEN <<[Event("fail", "Failed to process", Top.name, Top.result)
                      EXCEPT !.file = RestoredFileName(Top),
                             !.line = RestoredLineNumber(Top)]>>
           ELSE <<>>) \o
          <<Event("return", "return", Top.name, Top.result)>>
    /\ IF Len(stack) = 1
       THEN /\ stack' = <<>>
            /\ pc' = "done"
       ELSE LET caller == stack[Len(stack) - 1]
                resumed == IF caller.pc = "wait"
                           THEN [caller EXCEPT !.pc = "resume", !.rc = Top.result]
                           ELSE caller
            IN  /\ stack' = [SubSeq(stack, 1, Len(stack) - 1)
                               EXCEPT ![Len(stack) - 1] = resumed]
                /\ pc' = pc
    /\ calls' = [calls EXCEPT ![Top.call].ret = Top.result]
    /\ UNCHANGED <<required, verbose, workbuf, store, rootData, nullAtEnd>>

-----------------------------------------------------------------------------
(* ProcessConfigData: one line at a time *)

\* 0-based index of the byte that ends the line starting at i: a newline or
\* the terminating NUL
LineEnd(data, i) ==
    LET ends == {j \in i..Len(data) : j = Len(data) \/ data[j + 1] = NL}
    IN  CHOOSE j \in ends : \A k \in ends : j <= k

\* lseek, memset and the write of the expanded line: the first workbufSize
\* bytes are cleared, the output is written from offset 0
WriteWorkbuf(old, out) ==
    LET n == IF Len(out) > Len(old) THEN Len(out) ELSE Len(old)
    IN  [k \in 1..n |->
            IF k <= Len(out) THEN out[k]
            ELSE IF k <= WorkbufSize THEN NUL
            ELSE old[k]]

\* a scan that ends with the last newline: what follows it is not a line
Scanned_LastLineDropped(fr) ==
    CHOOSE scanned \in
        {[fr EXCEPT !.i = j,
                    !.done = \A k \in (j + 2)..Len(fr.data) : fr.data[k] # NL,
                    !.data = [k \in 1..Len(fr.data) |->
                                 IF k = j + 1 THEN NUL ELSE fr.data[k]]]
            : j \in {LineEnd(fr.data, fr.i)}} : TRUE

\* the frame when the scan has reached the end of the current line: the
\* line break is replaced with a NUL
Scanned(fr) ==
    CHOOSE scanned \in
        {[fr EXCEPT !.i = j,
                    !.done = (j = Len(fr.data)),
                    !.data = [k \in 1..Len(fr.data) |->
                                 IF k = j + 1 THEN NUL ELSE fr.data[k]]]
            : j \in {LineEnd(fr.data, fr.i)}} : TRUE

\* the whole buffer handed to the template engine instead of the line
RawLine_FromStart(fr) == CStr(fr.data)

\* the line handed to the template engine: the string at lineidx
RawLine(fr) == CStr(SubSeq(fr.data, fr.lineidx + 1, Len(fr.data)))

\* ProcessConfigLine given the line as it is in the file
ClassifiedText_Raw(raw, wb) == raw

\* the text ProcessConfigLine is given: the string in the working buffer
ClassifiedText(raw, wb) == CStr(wb)

\* ProcessConfigLine: what the first character of the resolved line selects
Classify(line) ==
    IF line = <<>> \/ line[1] = "#" THEN "ignore"
    ELSE IF line[1] = "@" THEN "directive"
    ELSE "assignment"

\* an assignment split at spaces only
Delimiter_SpaceOnly(line) == " "

\* the delimiter of an assignment: = when the line has one, a space otherwise
Delimiter(line) == IF FirstIdx(line, "=") # 0 THEN "=" ELSE " "

\* every line expanded with the values the server had when the run began
ExpansionStore_AtStart == InitialStore

\* what the template engine reads through the handle hVarServer: the values
\* the server has at the moment of the call
ExpansionStore == store

\* the loop body up to the call of ProcessConfigLine, for the line the scan
\* of the innermost frame is at: the frame at the line end (fr), the raw
\* line, the result of the expansion (rc), the working buffer after it (wb),
\* the resolved line handed to ProcessConfigLine (line), and what
\* ProcessDirective (tok, arg) and ProcessVariableAssignment (var, val)
\* split it into.  Every step is bound to a name as the element of a
\* one-element set, so that it is computed once
CurrentLine ==
    LET Split(fr, raw, exp, wb, line) ==
            {[fr |-> fr, raw |-> raw, rc |-> exp.rc, wb |-> wb, line |-> line,
              class |-> IF exp.rc # EOK THEN "none"
                        ELSE Classify(ClassifiedText(raw, wb)),
              tok |-> dir.tok, arg |-> dir.save,
              var |-> asg.tok, val |-> asg.save]
                : dir \in {StrtokR(line, " ", nullAtEnd)},
                  asg \in {StrtokR(line, Delimiter(line), nullAtEnd)}}
        Written(fr, raw, exp, wb) ==
            UNION {Split(fr, raw, exp, wb, line) : line \in {CStr(wb)}}
        Expanded(fr, raw, exp) ==
            UNION {Written(fr, raw, exp, wb)
                      : wb \in {WriteWorkbuf(workbuf, exp.out)}}
        Read(fr, raw) ==
            UNION {Expanded(fr, raw, exp)
                      : exp \in {TEMPLATE_StrToFile(ExpansionStore, raw)}}
        Scan(fr) == UNION {Read(fr, raw) : raw \in {RawLine(fr)}}
    IN  CHOOSE L \in UNION {Scan(fr) : fr \in {Scanned(Top)}} : TRUE

InData == pc = "run" /\ stack # <<>> /\ Top.pc = "data"

\* the result of the file is the result of its last line
Accumulate_LastLine(result, rc) == rc

\* the result of the file after a line that returned rc
Accumulate(result, rc) == IF rc # EOK THEN rc ELSE result

\* the loop ends at the first line that fails
NextLine_StopOnError(fr, rc) ==
    [fr EXCEPT !.result = Accumulate(fr.result, rc),
               !.lineidx = fr.i + 1,
               !.i = fr.i + 1,
               !.pc = IF fr.done \/ rc # EOK THEN "ret" ELSE "data"]

\* the frame after the line: the scan moves behind the line end, the loop
\* ends after the line that ends with the terminating NUL
NextLine(fr, rc) ==
    [fr EXCEPT !.result = Accumulate(fr.result, rc),
               !.lineidx = fr.i + 1,
               !.i = fr.i + 1,
               !.pc = IF fr.done THEN "ret" ELSE "data"]

ReplaceTop(stk, fr) == [stk EXCEPT ![Len(stk)] = fr]

\* observation: a line has been expanded (s1 the raw line, s2 the resolved
\* line, rc the result of the expansion)
LineEv(L) ==
    Event("line", L.raw, IF L.rc = EOK THEN L.line ELSE NULL, L.rc)

\* observation: a line has ended with rc (s2: the result of the file before
\* and after the line)
DoneEv(fr, kind, rc) ==
    Event("done", kind, <<fr.result, NextLine(fr, rc).result>>, rc)

\* the end of the loop body for a line whose ProcessConfigLine returned rc
FinishLine(fr, kind, rc, evs) ==
    /\ stack' = ReplaceTop(stack, NextLine(fr, rc))
    /\ lineno' = lineno + 1
    /\ events' = events \o evs \o
          (IF rc # EOK THEN <<LogError("Config error")>> ELSE <<>>) \o
          <<DoneEv(fr, kind, rc)>>

\* a failed expansion that leaves the result of the file as it was
ExpandError_ResultKept ==
    /\ InData
    /\ \E L \in {CurrentLine} :
           /\ L.rc # EOK
           /\ workbuf' = L.wb
           /\ stack' = ReplaceTop(stack, NextLine(L.fr, EOK))
           /\ lineno' = lineno + 1
           /\ events' = events \o
                 <<LineEv(L), LogError("Variable Expansion error"),
                   [DoneEv(L.fr, "expand", EOK) EXCEPT !.rc = L.rc]>>
    /\ UNCHANGED <<pc, pFileName, required, verbose, store, rootData, nullAtEnd, calls>>

\* the expansion of the line fails
ExpandError ==
    /\ InData
    /\ \E L \in {CurrentLine} :
           /\ L.rc # EOK
           /\ workbuf' = L.wb
           /\ stack' = ReplaceTop(stack, NextLine(L.fr, L.rc))
           /\ lineno' = lineno + 1
           /\ events' = events \o
                 <<LineEv(L), LogError("Variable Expansion error"),
                   DoneEv(L.fr, "expand", L.rc)>>
    /\ UNCHANGED <<pc, pFileName, required, verbose, store, rootData, nullAtEnd, calls>>

\* comments and blank lines
IgnoreLine ==
    /\ InData
    /\ \E L \in {CurrentLine} :
           /\ L.class = "ignore"
           /\ workbuf' = L.wb
           /\ FinishLine(L.fr, "ignore", EOK, <<LineEv(L)>>)
    /\ UNCHANGED <<pc, pFileName, required, verbose, store, rootData, nullAtEnd, calls>>

-----------------------------------------------------------------------------
(* ProcessDirective *)

\* ProcessConfigDirective: the description is printed in verbose mode; a
\* null argument is refused
ProcessConfigDirective ==
    /\ InData
    /\ \E L \in {CurrentLine} :
           /\ L.class = "directive"
           /\ L.tok = CONFIG_TAG
           /\ workbuf' = L.wb
           /\ IF L.arg # NULL
              THEN FinishLine(L.fr, "config", EOK,
                      <<LineEv(L)>> \o
                      (IF verbose THEN <<Out("Processing", L.arg, <<>>)>> ELSE <<>>))
              ELSE FinishLine(L.fr, "config", EINVAL, <<LineEv(L)>>)
    /\ UNCHANGED <<pc, pFileName, required, verbose, store, rootData, nullAtEnd, calls>>

\* ProcessIncludeDirective and ProcessRequireDirective with a guard against
\* cycles: a file that is being processed is refused
ProcessFileDirective_CycleGuard(name, kind, req) ==
    /\ InData
    /\ \E L \in {CurrentLine} :
           /\ L.class = "directive"
           /\ L.tok = name
           /\ workbuf' = L.wb
           /\ IF L.arg # NULL /\ \A d \in 1..Len(stack) : stack[d].name # L.arg
              THEN /\ Len(stack) < MaxDepth
                   /\ required' = req
                   /\ ProcessConfigFile(
                         ReplaceTop(stack, [L.fr EXCEPT !.pc = "wait"]), L.arg,
                         <<LineEv(L)>> \o
                         (IF verbose THEN <<Out("Including", L.arg, <<>>)>> ELSE <<>>))
              ELSE /\ FinishLine(L.fr, kind, EINVAL, <<LineEv(L)>>)
                   /\ UNCHANGED <<pFileName, required, calls>>
    /\ UNCHANGED <<pc, verbose, store, rootData, nullAtEnd>>

\* the body of ProcessIncludeDirective and of ProcessRequireDirective: the
\* required flag is set to req and the named file is processed; a null
\* argument is refused
ProcessFileDirective(name, kind, req) ==
    /\ InData
    /\ \E L \in {CurrentLine} :
           /\ L.class = "directive"
           /\ L.tok = name
           /\ workbuf' = L.wb
           /\ IF L.arg # NULL
              THEN /\ Len(stack) < MaxDepth
                   /\ required' = req
                   /\ ProcessConfigFile(
                         ReplaceTop(stack, [L.fr EXCEPT !.pc = "wait"]), L.arg,
                         <<LineEv(L)>> \o
                         (IF verbose THEN <<Out("Including", L.arg, <<>>)>> ELSE <<>>))
              ELSE /\ FinishLine(L.fr, kind, EINVAL, <<LineEv(L)>>)
                   /\ UNCHANGED <<pFileName, required, calls>>
    /\ UNCHANGED <<pc, verbose, store, rootData, nullAtEnd>>

\* @include with the required flag of @require
ProcessIncludeDirective_Mandatory == ProcessFileDirective(INCLUDE, "include", TRUE)

\* included files are not mandatory
ProcessIncludeDirective == ProcessFileDirective(INCLUDE, "include", FALSE)

\* @require with the required flag of @include
ProcessRequireDirective_Optional == ProcessFileDirective(REQUIRE, "require", FALSE)

\* required files are
ProcessRequireDirective == ProcessFileDirective(REQUIRE, "require", TRUE)

\* ProcessIncludeDirDirective up to opendir: a directory that opens is
\* scanned, anything else ends the directive with EOK; a null argument is
\* refused
ProcessIncludeDirDirective ==
    /\ InData
    /\ \E L \in {CurrentLine} :
       LET said == <<LineEv(L)>> \o
                   (IF verbose
                    THEN <<Out("Processing directory", L.arg, <<>>)>>
                    ELSE <<>>)
       IN  /\ L.class = "directive"
           /\ L.tok = INCLUDEDIR
           /\ workbuf' = L.wb
           /\ IF L.arg = NULL
              THEN FinishLine(L.fr, "includedir", EINVAL, <<LineEv(L)>>)
              ELSE IF L.arg \in DOMAIN Dirs
              THEN /\ stack' = ReplaceTop(stack,
                                 [L.fr EXCEPT !.pc = "dir", !.dir = Dirs[L.arg] \cup DotEntries])
                   /\ events' = events \o said
                   /\ UNCHANGED lineno
              ELSE FinishLine(L.fr, "includedir", EOK, said)
    /\ UNCHANGED <<pc, pFileName, required, verbose, store, rootData, nullAtEnd, calls>>

\* the readdir loop without the assignment to the required flag
EntryRequired_AsLeft == required

\* what the readdir loop stores in the required flag before every entry:
\* included directories are not mandatory
EntryRequired == FALSE

\* the readdir loop: every entry, "." and ".." among them, is processed as
\* a file that is not mandatory, by its name alone; the order is the file
\* system's
ReadDir ==
    /\ pc = "run"
    /\ stack # <<>>
    /\ Top.pc = "dir"
    /\ Top.dir # {}
    /\ Len(stack) < MaxDepth
    /\ \E entry \in Top.dir :
          /\ required' = EntryRequired
          /\ ProcessConfigFile(ReplaceTop(stack, [Top EXCEPT !.dir = @ \ {entry}]),
                               entry, <<>>)
    /\ UNCHANGED <<pc, verbose, workbuf, store, rootData, nullAtEnd>>

\* ProcessIncludeDirDirective returning the last error of its entries
IncludeDirResult_LastError(fr) ==
    LET bad == {c \in 1..Len(calls) :
                   /\ calls[c].how = "dir"
                   /\ calls[c].from = fr.call
                   /\ calls[c].at = LineIndex(fr)
                   /\ calls[c].ret # EOK}
    IN  IF bad = {} THEN EOK
        ELSE calls[CHOOSE c \in bad : \A b \in bad : b <= c].ret

\* the result of ProcessIncludeDirDirective for a directory name: the value
\* set before the loop, since the return value of ProcessConfigFile is
\* dropped
IncludeDirResult(fr) == EOK

\* closedir: the directive ends with EOK whatever the entries returned
CloseDir ==
    /\ pc = "run"
    /\ stack # <<>>
    /\ Top.pc = "dir"
    /\ Top.dir = {}
    /\ FinishLine(Top, "includedir", IncludeDirResult(Top), <<>>)
    /\ UNCHANGED <<pc, pFileName, required, verbose, workbuf, store, rootData,
                   nullAtEnd, calls>>

\* ProcessDirective without the error for a directive it does not know
UnknownDirective_Accepted ==
    /\ InData
    /\ \E L \in {CurrentLine} :
           /\ L.class = "directive"
           /\ L.tok \notin {CONFIG_TAG, INCLUDE, REQUIRE, INCLUDEDIR}
           /\ workbuf' = L.wb
           /\ FinishLine(L.fr, "unknown", EOK, <<LineEv(L)>>)
    /\ UNCHANGED <<pc, pFileName, required, verbose, store, rootData, nullAtEnd, calls>>

\* any other directive
UnknownDirective ==
    /\ InData
    /\ \E L \in {CurrentLine} :
           /\ L.class = "directive"
           /\ L.tok \notin {CONFIG_TAG, INCLUDE, REQUIRE, INCLUDEDIR}
           /\ workbuf' = L.wb
           /\ FinishLine(L.fr, "unknown", ENOTSUP,
                         <<LineEv(L), LogError("unknown directive")>>)
    /\ UNCHANGED <<pc, pFileName, required, verbose, store, rootData, nullAtEnd, calls>>

\* a directive that returns EOK whatever the nested file returned
Resume_ErrorSwallowed ==
    /\ pc = "run"
    /\ stack # <<>>
    /\ Top.pc = "resume"
    /\ FinishLine(Top, "nested", EOK, <<>>)
    /\ UNCHANGED <<pc, pFileName, required, verbose, workbuf, store, rootData,
                   nullAtEnd, calls>>

\* the loop of ProcessConfigData ending at a directive whose file failed
Resume_FatalOnError ==
    /\ pc = "run"
    /\ stack # <<>>
    /\ Top.pc = "resume"
    /\ stack' = ReplaceTop(stack,
                   [NextLine(Top, Top.rc)
                       EXCEPT !.pc = IF Top.rc # EOK THEN "ret" ELSE @])
    /\ lineno' = lineno + 1
    /\ events' = events \o
          (IF Top.rc # EOK THEN <<LogError("Config error")>> ELSE <<>>) \o
          <<DoneEv(Top, "nested", Top.rc)>>
    /\ UNCHANGED <<pc, pFileName, required, verbose, workbuf, store, rootData,
                   nullAtEnd, calls>>

\* the line of an @include or @require ends when the nested call has returned
Resume ==
    /\ pc = "run"
    /\ stack # <<>>
    /\ Top.pc = "resume"
    /\ FinishLine(Top, "nested", Top.rc, <<>>)
    /\ UNCHANGED <<pc, pFileName, required, verbose, workbuf, store, rootData,
                   nullAtEnd, calls>>

-----------------------------------------------------------------------------
(* ProcessVariableAssignment *)

ProcessVariableAssignment ==
    /\ InData
    /\ \E L \in {CurrentLine} :
       LET rc == VAR_SetNameValue(store, L.var)
       IN  /\ L.class = "assignment"
           /\ workbuf' = L.wb
           /\ IF L.var # NULL /\ L.val # NULL
              THEN /\ store' = IF rc = EOK
                               THEN [store EXCEPT ![L.var] = L.val]
                               ELSE store
                   /\ FinishLine(L.fr, "assignment", rc,
                         <<LineEv(L)>> \o
                         (IF verbose THEN <<Out("Setting", L.var, L.val)>> ELSE <<>>) \o
                         <<Event("set", L.var, L.val, rc)>> \o
                         (IF rc = EOK THEN <<>>
                          ELSE IF rc = ENOENT THEN <<LogError("Variable not found")>>
                          ELSE <<LogError("Variable assignment failed")>>))
              ELSE /\ store' = store
                   /\ FinishLine(L.fr, "assignment", EINVAL,
                                 <<LineEv(L), LogError("Invalid Variable Assignment")>>)
    /\ UNCHANGED <<pc, pFileName, required, verbose, rootData, nullAtEnd, calls>>

-----------------------------------------------------------------------------
(* The program *)

Next ==
    \/ Main
    \/ ExpandError
    \/ IgnoreLine
    \/ ProcessConfigDirective
    \/ ProcessIncludeDirective
    \/ ProcessRequireDirective
    \/ ProcessIncludeDirDirective
    \/ ReadDir
    \/ CloseDir
    \/ UnknownDirective
    \/ Resume
    \/ ProcessVariableAssignment
    \/ Return

Spec == Init /\ [][Next]_vars

\* the program is one thread that is never suspended for good: as long as a
\* step is possible, a step is taken
FairSpec == Spec /\ WF_vars(Next)

-----------------------------------------------------------------------------
(* Reading the history *)

IsPrefix(p, s) == Len(p) <= Len(s) /\ SubSeq(s, 1, Len(p)) = p

\* positions in the history of the events of one kind
EventsOf(kind) == {k \in 1..Len(events) : events[k].ev = kind}

\* the events of one kind that were made while call c was the active one
CallEvents(c, kind) == SelectSeq(events, LAMBDA e : e.ev = kind /\ e.call = c)

LastEvent == events[Len(events)]

\* a target that must not be loaded: there is no such file, the file is
\* shorter than the tag, or it does not begin with the bytes of the tag.
\* A directory is none of these: it has a size, and no bytes to compare
Unloadable(path) ==
    LET d == FileData(path)
    IN  /\ ~IsDirectory(path)
        /\ \/ d = NULL
           \/ Len(d) < Len(CONFIG_TAG)
           \/ \E k \in 1..Len(CONFIG_TAG) : d[k] # CONFIG_TAG[k]

\* the lines of a text: the pieces between its newlines
RECURSIVE SplitLines(_)
SplitLines(s) ==
    LET e == FirstIdx(s, NL)
    IN  IF e = 0 THEN <<s>>
        ELSE <<SubSeq(s, 1, e - 1)>> \o SplitLines(SubSeq(s, e + 1, Len(s)))

\* the observation of the directive line that made call c
DirectiveLine(c) ==
    LET ks == {k \in EventsOf("line") :
                  events[k].call = calls[c].from /\ events[k].idx = calls[c].at}
    IN  events[CHOOSE k \in ks : TRUE]

\* by the text of the run, call c is for a file that must exist: the file of
\* the command line or the target of an @require line
Mandatory(c) ==
    \/ calls[c].how = "main"
    \/ /\ calls[c].how = "wait"
       /\ IsPrefix(REQUIRE \o <<" ">>, DirectiveLine(c).s2)

\* positions of the observations that the directive line of call c has ended
DirectiveDone(c) ==
    {k \in EventsOf("done") :
        events[k].call = calls[c].from /\ events[k].idx = calls[c].at}

Returned(c) == calls[c].ret # "none"

-----------------------------------------------------------------------------
(* Optional and mandatory targets *)

\* C1: a call of ProcessConfigFile for a target that is not mandatory (an
\* @include target, an @includedir entry) and that is missing, shorter than
\* the tag or without the tag returns EOK; nothing happens between its entry
\* and its return, so no set-call is made; the directive line ends with EOK
\* and leaves the result of the including file as it was.
C1_OptionalTargetNotLoaded ==
    \A c \in 1..Len(calls) :
        (~Mandatory(c) /\ Unloadable(calls[c].file)) =>
            /\ calls[c].ret \in {"none", EOK}
            /\ \A k \in 1..Len(events) :
                  events[k].call = c => events[k].ev \in {"enter", "return"}
            /\ \A k \in EventsOf("enter") :
                  (events[k].call = c /\ k < Len(events)) =>
                      /\ events[k + 1].ev = "return"
                      /\ events[k + 1].call = c
                      /\ events[k + 1].rc = EOK
            /\ \A k \in DirectiveDone(c) :
                  /\ events[k].rc = EOK
                  /\ events[k].s2[2] = events[k].s2[1]

\* the run has ended; a missing file, a short file and a file without the
\* tag have been included, one of them by a file whose result was EINVAL
\* before the line and is EINVAL after it
C1_Witness ==
    /\ pc = "done"
    /\ \A f \in {<<"M">>, <<"N">>, <<"S">>} :
          \E c \in 1..Len(calls) :
              /\ calls[c].file = f
              /\ calls[c].how = "wait"
              /\ ~Mandatory(c)
              /\ calls[c].ret = EOK
    /\ \E c \in 1..Len(calls) :
          /\ calls[c].file = <<"N">>
          /\ ~Mandatory(c)
          /\ \E k \in DirectiveDone(c) : events[k].s2 = <<EINVAL, EINVAL>>

\* C2: a call of ProcessConfigFile for a mandatory target (the file of the
\* command line, an @require target) that is missing, shorter than the tag
\* or without the tag returns an error code; the @require line ends with that
\* code, the result of the requiring file becomes that code, and the
\* requiring file does not return EOK.
C2_MandatoryTargetNotLoaded ==
    \A c \in 1..Len(calls) :
        (Mandatory(c) /\ Unloadable(calls[c].file) /\ Returned(c)) =>
            /\ calls[c].ret # EOK
            /\ calls[c].how = "wait" =>
                  /\ \A k \in DirectiveDone(c) :
                        /\ events[k].rc = calls[c].ret
                        /\ events[k].s2[2] = calls[c].ret
                  /\ calls[calls[c].from].ret # EOK

\* the run has ended; a missing file, a short file and a file without the
\* tag have been required, and the requiring files have returned an error
C2_Witness ==
    /\ pc = "done"
    /\ \A f \in {<<"M">>, <<"N">>, <<"S">>} :
          \E c \in 1..Len(calls) :
              /\ calls[c].file = f
              /\ calls[c].how = "wait"
              /\ Mandatory(c)
              /\ calls[c].ret = EINVAL
              /\ DirectiveDone(c) # {}
              /\ calls[calls[c].from].ret \notin {"none", EOK}

-----------------------------------------------------------------------------
(* What a nested call saves and restores *)

\* C3: when ProcessConfigFile has been entered the line number is 1; when it
\* has returned the line number is the one of the caller before the call,
\* which is the position k of the directive line; every line is handled
\* under its position in its file, so the line after the directive is k + 1.
C3_LineNumberResetAndRestored ==
    /\ (stack # <<>> /\ Top.lineidx = 0 /\ Top.pc \in {"data", "ret"}) => lineno = 1
    /\ (events # <<>> /\ LastEvent.ev = "return") =>
          lineno = calls[LastEvent.call].line
    /\ \A c \in 1..Len(calls) : calls[c].from # 0 => calls[c].line = calls[c].at
    /\ \A k \in EventsOf("line") : events[k].line = events[k].idx

\* a file loaded at depth three has returned an error from line k of its
\* caller, and the caller has handled its next line as line k + 1
C3_Witness ==
    \E c \in 1..Len(calls) :
        /\ calls[c].from # 0
        /\ calls[calls[c].from].from # 0
        /\ calls[c].loaded
        /\ calls[c].ret \notin {"none", EOK}
        /\ calls[c].at > 2
        /\ \E k \in EventsOf("line") :
              /\ events[k].call = calls[c].from
              /\ events[k].idx = calls[c].at + 1
              /\ events[k].line = calls[c].at + 1

\* C4: every message of LogError names the file of the active call and the
\* position of the line that call is at: an error in line j of a nested
\* file F is reported as (F, j), the error of a directive line k of file P
\* that is reported after the nested call has returned as (P, k).
C4_ErrorsAttributed ==
    \A k \in EventsOf("err") :
        /\ events[k].file = calls[events[k].call].file
        /\ events[k].line = events[k].idx

\* a nested file P has required a target that cannot be loaded, and the
\* error of that line has been reported under the name of P and the line of
\* the directive
C4_Witness ==
    \E c \in 1..Len(calls) :
        /\ Mandatory(c)
        /\ calls[c].how = "wait"
        /\ calls[c].ret = EINVAL
        /\ calls[calls[c].from].from # 0
        /\ \E k \in EventsOf("err") :
              /\ events[k].call = calls[c].from
              /\ events[k].idx = calls[c].at
              /\ events[k].s1 = "Config error"
              /\ events[k].file = calls[calls[c].from].file
              /\ events[k].file # calls[c].file
              /\ events[k].line = calls[c].at

\* C5 as stated: when the call made for an @include, an @require or an
\* @includedir entry has returned, the required flag has the value it had
\* before the directive line was processed.
C5_RequiredRestored ==
    (events # <<>> /\ LastEvent.ev = "return" /\ calls[LastEvent.call].from # 0) =>
        required = DirectiveLine(LastEvent.call).req

\* C5: the required flag is not restored; it keeps the value that was set
\* for the call of ProcessConfigFile that started last: true for the file of
\* the command line and for an @require target, false for an @include target
\* and an @includedir entry.
C5_RequiredOfLatestCall ==
    calls # <<>> => required = Mandatory(Len(calls))

\* an @include has returned and the required flag is true: a file nested in
\* the included one was required
C5_Witness ==
    /\ events # <<>>
    /\ LastEvent.ev = "return"
    /\ calls[LastEvent.call].how = "wait"
    /\ ~Mandatory(LastEvent.call)
    /\ calls[LastEvent.call].loaded
    /\ required = TRUE

-----------------------------------------------------------------------------
(* The lines of one file *)

\* C6: for every loaded file the lines that have been expanded are a prefix
\* of the lines of the file, in file order, each one once; each expanded
\* line ends before the next is expanded; when the call has returned, every
\* line of the file has been expanded and has ended, whatever earlier lines
\* returned.
C6_EveryLineOnceInOrder ==
    \A c \in 1..Len(calls) :
        calls[c].loaded =>
            LET ls == SplitLines(FileData(calls[c].file))
                le == CallEvents(c, "line")
                de == CallEvents(c, "done")
            IN  /\ Len(le) <= Len(ls)
                /\ \A j \in 1..Len(le) : le[j].s1 = ls[j] /\ le[j].idx = j
                /\ Len(de) \in {Len(le) - 1, Len(le)}
                /\ \A j \in 1..Len(de) : de[j].idx = j
                /\ Returned(c) => (Len(le) = Len(ls) /\ Len(de) = Len(ls))

\* the run has ended; line 2 of the root file failed in expansion and its
\* line 3 loaded file B, whose eleven lines have all ended although a store
\* error, an invalid assignment, an unsupported directive and a failed
\* @require are among them
C6_Witness ==
    /\ pc = "done"
    /\ \E k \in EventsOf("done") :
          /\ events[k].call = 1
          /\ events[k].idx = 2
          /\ events[k].s1 = "expand"
          /\ events[k].rc # EOK
    /\ \E c \in 1..Len(calls) :
          /\ calls[c].file = <<"B">>
          /\ calls[c].from = 1
          /\ calls[c].at = 3
          /\ Len(CallEvents(c, "done")) = 11
          /\ {e.rc : e \in {CallEvents(c, "done")[j] : j \in 1..11}}
                = {EOK, ENOENT, EACCES, EINVAL, ENOTSUP}

\* C7: a loaded file returns EOK iff none of its lines ended with an error;
\* otherwise it returns the code of the last of its lines that ended with
\* an error.
C7_LastErrorWins ==
    \A c \in 1..Len(calls) :
        (calls[c].loaded /\ Returned(c)) =>
            LET fails == {k \in EventsOf("done") :
                             events[k].call = c /\ events[k].rc # EOK}
            IN  calls[c].ret =
                    IF fails = {} THEN EOK
                    ELSE events[CHOOSE k \in fails : \A j \in fails : j <= k].rc

\* a loaded file has returned the code of a failing line that came after a
\* line failing with another code and before a line that succeeded
C7_Witness ==
    \E c \in 1..Len(calls) :
        /\ calls[c].loaded
        /\ calls[c].ret \notin {"none", EOK}
        /\ \E k1, k2, k3 \in EventsOf("done") :
              /\ k1 < k2 /\ k2 < k3
              /\ events[k1].call = c /\ events[k2].call = c /\ events[k3].call = c
              /\ events[k1].rc \notin {EOK, calls[c].ret}
              /\ events[k2].rc = calls[c].ret
              /\ events[k3].rc = EOK

\* C8: the set-calls made for the lines of one file reach the server in
\* line order; the root file with the lines `a 1` and `b=2` makes the calls
\* set(a, 1) and set(b, 2), in that order.
C8_SetCallsInLineOrder ==
    /\ \A k1, k2 \in EventsOf("set") :
          (k1 < k2 /\ events[k1].call = events[k2].call) =>
              events[k1].idx < events[k2].idx
    /\ (pc = "done" /\ rootData = Join(<<CONFIG_TAG \o <<" ", "r">>,
                                         <<"a", " ", "1">>, <<"b", "=", "2">>>>)) =>
          LET se == SelectSeq(events, LAMBDA e : e.ev = "set")
          IN  /\ Len(se) = 2
              /\ se[1].s1 = <<"a">> /\ se[1].s2 = <<"1">> /\ se[1].idx = 2
              /\ se[2].s1 = <<"b">> /\ se[2].s2 = <<"2">> /\ se[2].idx = 3

\* the run over the root file with the lines `a 1` and `b=2` has ended and
\* both values are in the server
C8_Witness ==
    /\ pc = "done"
    /\ rootData = Join(<<CONFIG_TAG \o <<" ", "r">>,
                         <<"a", " ", "1">>, <<"b", "=", "2">>>>)
    /\ Len(SelectSeq(events, LAMBDA e : e.ev = "set")) = 2
    /\ store[<<"a">>] = <<"1">>
    /\ store[<<"b">>] = <<"2">>

-----------------------------------------------------------------------------
(* Files that are not configuration files *)

\* C10: a file that is missing, shorter than the tag or without the tag is
\* not loaded: no line of it is expanded or ended, no set-call and no
\* message is made while its call is active, and no call of
\* ProcessConfigFile comes from it.
C10_NotLoadedWithoutTag ==
    \A c \in 1..Len(calls) :
        Unloadable(calls[c].file) =>
            /\ ~calls[c].loaded
            /\ \A k \in 1..Len(events) :
                  events[k].call = c => events[k].ev \in {"enter", "fail", "return"}
            /\ \A d \in 1..Len(calls) : calls[d].from # c

\* the run has ended; the file without the tag, whose lines set a and b and
\* include A, has been included and required, the short file and the
\* missing file have been processed, and a has the value file B gave it
C10_Witness ==
    /\ pc = "done"
    /\ \E c \in 1..Len(calls) :
          calls[c].file = <<"N">> /\ Mandatory(c) /\ calls[c].ret = EINVAL
    /\ \E c \in 1..Len(calls) :
          calls[c].file = <<"N">> /\ ~Mandatory(c) /\ calls[c].ret = EOK
    /\ \E c \in 1..Len(calls) : calls[c].file = <<"S">> /\ Returned(c)
    /\ \E c \in 1..Len(calls) : calls[c].file = <<"M">> /\ Returned(c)
    /\ store[<<"a">>] = <<"3">>

-----------------------------------------------------------------------------
(* Directories *)

\* the observation of line idx of call c
LineOf(c, idx) ==
    events[CHOOSE k \in EventsOf("line") :
               events[k].call = c /\ events[k].idx = idx]

\* the text behind the first token of a directive line and one space
ArgOf(line, directive) ==
    IF IsPrefix(directive \o <<" ">>, line)
    THEN SubSeq(line, Len(directive) + 2, Len(line))
    ELSE NULL

\* positions of the observations that an @includedir line has ended
IncludeDirDone == {k \in EventsOf("done") : events[k].s1 = "includedir"}

\* the calls of ProcessConfigFile made for entry n by the @includedir line
\* whose end is observed at position k
EntryCalls(k, n) ==
    {c \in 1..Len(calls) :
        /\ calls[c].how = "dir"
        /\ calls[c].from = events[k].call
        /\ calls[c].at = events[k].idx
        /\ calls[c].file = n}

\* the assignment lines of a text without variable references
AssignmentLines(text) ==
    LET ls == SplitLines(text)
    IN  {ls[j] : j \in {i \in 1..Len(ls) : Classify(ls[i]) = "assignment"}}

\* C11: when an @includedir line that names a directory D has ended, its
\* result is EOK; for every file of D that is a configuration file, a call
\* made for that entry has made a set-call for every assignment line of the
\* file in D; for every file of D that is not one, the calls made for that
\* entry have made no set-call and logged no error.
C11_IncludeDirAppliesFilesOfDirectory ==
    \A k \in IncludeDirDone :
        LET d == ArgOf(LineOf(events[k].call, events[k].idx).s2, INCLUDEDIR)
        IN  d \in DOMAIN Dirs =>
              /\ events[k].rc = EOK
              /\ \A n \in Dirs[d] :
                    LET path == d \o <<"/">> \o n
                    IN  IF Unloadable(path)
                        THEN \A c \in EntryCalls(k, n) : \A j \in 1..Len(events) :
                                events[j].call = c => events[j].ev \notin {"set", "err"}
                        ELSE \E c \in EntryCalls(k, n) :
                                \A l \in AssignmentLines(FileData(path)) :
                                   \E j \in EventsOf("set") :
                                      /\ events[j].call = c
                                      /\ events[j].s1 \o <<Delimiter(l)>> \o events[j].s2 = l

-----------------------------------------------------------------------------
(* Assignments without a name or without a value *)

\* the name and the value of an assignment line: the text before the first
\* delimiter and the text behind it; the delimiter is = when the line has
\* one, a space otherwise
NameAndValue(line) ==
    LET d == IF FirstIdx(line, "=") # 0 THEN "=" ELSE " "
        p == FirstIdx(line, d)
    IN  IF p = 0 THEN [name |-> line, value |-> <<>>]
        ELSE [name |-> SubSeq(line, 1, p - 1),
              value |-> SubSeq(line, p + 1, Len(line))]

\* positions of the observations of resolved lines that are assignments
AssignmentLineEvents ==
    {k \in EventsOf("line") :
        events[k].rc = EOK /\ Classify(events[k].s2) = "assignment"}

\* C13: for an assignment line whose name or whose value is empty, no
\* set-call is made, and the line ends with an error.
C13_EmptyNameOrValueIsInvalid ==
    \A k \in AssignmentLineEvents :
        LET nv == NameAndValue(events[k].s2)
        IN  (nv.name = <<>> \/ nv.value = <<>>) =>
              /\ \A j \in EventsOf("set") :
                    ~(events[j].call = events[k].call /\ events[j].idx = events[k].idx)
              /\ \A j \in EventsOf("done") :
                    (events[j].call = events[k].call /\ events[j].idx = events[k].idx)
                        => events[j].rc # EOK

-----------------------------------------------------------------------------
(* The required flag at the decision *)

\* C14: the required flag that ProcessConfigFile reads when it decides about
\* a target that was not loaded is TRUE for the file of the command line and
\* for the target of an @require line, FALSE for the target of an @include
\* line and for every directory entry; a target that was not loaded returns
\* an error exactly when it is one of the former.
C14_RequiredAtDecision ==
    \A c \in 1..Len(calls) :
        /\ calls[c].req = Mandatory(c)
        /\ calls[c].how = "dir" => calls[c].req = FALSE
        /\ (~calls[c].loaded /\ Returned(c)) =>
              (calls[c].ret # EOK) = Mandatory(c)

\* the run has ended; in a directory, an entry that was not loaded came
\* after an entry with a failed @require line and returned EOK; in a file,
\* an @include line and an @require line for targets that were not loaded
\* came after an @include line whose target had a failed @require line, the
\* first returned EOK and the second an error
C14_Witness ==
    /\ pc = "done"
    /\ \E c1, c2 \in 1..Len(calls) :
          /\ c1 < c2
          /\ calls[c1].how = "dir" /\ calls[c2].how = "dir"
          /\ calls[c1].from = calls[c2].from /\ calls[c1].at = calls[c2].at
          /\ \E d \in 1..Len(calls) :
                calls[d].from = c1 /\ Mandatory(d) /\ calls[d].ret = EINVAL
          /\ ~calls[c2].loaded /\ Unloadable(calls[c2].file)
          /\ calls[c2].ret = EOK
    /\ \E c1, c2, c3 \in 1..Len(calls) :
          /\ c1 < c2 /\ c2 < c3
          /\ calls[c1].how = "wait" /\ calls[c2].how = "wait" /\ calls[c3].how = "wait"
          /\ calls[c1].from = calls[c2].from /\ calls[c2].from = calls[c3].from
          /\ \E d \in 1..Len(calls) :
                calls[d].from = c1 /\ Mandatory(d) /\ calls[d].ret = EINVAL
          /\ ~Mandatory(c2) /\ ~calls[c2].loaded /\ calls[c2].ret = EOK
          /\ Mandatory(c3) /\ ~calls[c3].loaded /\ calls[c3].ret = EINVAL

-----------------------------------------------------------------------------
(* Directives that are not known *)

\* the first token of a line: the text before its first space
FirstToken(line) ==
    IF FirstIdx(line, " ") = 0 THEN line
    ELSE SubSeq(line, 1, FirstIdx(line, " ") - 1)

\* positions of the observations of resolved lines that begin with @ and
\* whose first token is none of the four directives
UnknownDirectiveLines ==
    {k \in EventsOf("line") :
        /\ events[k].rc = EOK
        /\ events[k].s2 # <<>>
        /\ events[k].s2[1] = "@"
        /\ FirstToken(events[k].s2) \notin {CONFIG_TAG, INCLUDE, REQUIRE, INCLUDEDIR}}

\* positions of the observations of kind made for line idx of call c
AtLine(kind, c, idx) ==
    {j \in EventsOf(kind) : events[j].call = c /\ events[j].idx = idx}

\* the number of lines of the file of call c
NumLines(c) == Len(SplitLines(FileData(calls[c].file)))

\* C15: a resolved line that begins with @ and whose first token is not
\* @config, @include, @require or @includedir ends with ENOTSUP, which
\* becomes the result of the file, after the error "unknown directive" has
\* been logged; no set-call and no call of ProcessConfigFile is made for it;
\* when its file has returned, every later line of the file has ended too.
C15_UnknownDirective ==
    \A k \in UnknownDirectiveLines :
        LET c == events[k].call
            idx == events[k].idx
        IN  /\ AtLine("set", c, idx) = {}
            /\ \A d \in 1..Len(calls) : ~(calls[d].from = c /\ calls[d].at = idx)
            /\ \A j \in AtLine("done", c, idx) :
                  /\ events[j].s1 = "unknown"
                  /\ events[j].rc = ENOTSUP
                  /\ events[j].s2[2] = ENOTSUP
                  /\ \E e \in AtLine("err", c, idx) :
                        e < j /\ events[e].s1 = "unknown directive"
            /\ Returned(c) =>
                  \A i \in idx..NumLines(c) : AtLine("done", c, i) # {}

\* the run has ended; a line with an unknown directive has ended with
\* ENOTSUP, and a later line of its file has made a set-call that the server
\* accepted
C15_Witness ==
    /\ pc = "done"
    /\ \E k \in UnknownDirectiveLines :
          /\ \E j \in AtLine("done", events[k].call, events[k].idx) :
                events[j].rc = ENOTSUP
          /\ \E j \in EventsOf("set") :
                /\ events[j].call = events[k].call
                /\ events[j].idx > events[k].idx
                /\ events[j].rc = EOK

-----------------------------------------------------------------------------
(* After a failed @require *)

\* the calls made by an @require line for a target that was not loaded,
\* and that have returned
FailedRequires ==
    {c \in 1..Len(calls) :
        /\ calls[c].how = "wait"
        /\ Mandatory(c)
        /\ Unloadable(calls[c].file)
        /\ Returned(c)}

\* C16 as stated: after an @require line has failed, no later line of the
\* requiring file is applied to the store.
C16_FailedRequireIsFatal ==
    \A c \in FailedRequires :
        \A j \in EventsOf("set") :
            ~(/\ events[j].call = calls[c].from
              /\ events[j].idx > calls[c].at
              /\ events[j].rc = EOK)

\* C16, amended: a failed @require line ends with the error of its target,
\* which becomes the result of the requiring file, and the file goes on:
\* when the requiring file has returned, every later line of it has ended,
\* and every later assignment line with a name and a value has made its
\* set-call.
C16_FailedRequireNotFatal ==
    \A c \in FailedRequires :
        LET f == calls[c].from
        IN  /\ \A k \in DirectiveDone(c) :
                  /\ events[k].rc = calls[c].ret
                  /\ events[k].rc # EOK
                  /\ events[k].s2[2] = events[k].rc
            /\ Returned(f) =>
                  \A i \in (calls[c].at + 1)..NumLines(f) :
                     /\ AtLine("done", f, i) # {}
                     /\ \A k \in AtLine("line", f, i) \cap AssignmentLineEvents :
                           LET nv == NameAndValue(events[k].s2)
                           IN  (nv.name # <<>> /\ nv.value # <<>>) =>
                                  \E j \in AtLine("set", f, i) :
                                     /\ events[j].s1 = nv.name
                                     /\ events[j].s2 = nv.value

\* the run has ended; an @require line has failed in a file that has lines
\* behind it, and one of these has made a set-call that the server accepted
C16_Witness ==
    /\ pc = "done"
    /\ \E c \in FailedRequires :
          /\ calls[c].at < NumLines(calls[c].from)
          /\ \E j \in EventsOf("set") :
                /\ events[j].call = calls[c].from
                /\ events[j].idx > calls[c].at
                /\ events[j].rc = EOK
                /\ store[events[j].s1] = events[j].s2

-----------------------------------------------------------------------------
(* Lines whose expansion fails *)

\* positions of the observations of lines whose expansion failed
FailedExpansions == {k \in EventsOf("line") : events[k].rc # EOK}

\* C17: a line whose expansion fails is not handed to ProcessConfigLine: no
\* set-call and no call of ProcessConfigFile is made for it; the error
\* "Variable Expansion error" is logged with the name of the file and the
\* number of the line, the line ends with the code of the expansion, and
\* that code becomes the result of the file.
C17_FailedExpansionAbandonsLine ==
    \A k \in FailedExpansions :
        LET c == events[k].call
            idx == events[k].idx
        IN  /\ events[k].s2 = NULL
            /\ AtLine("set", c, idx) = {}
            /\ \A d \in 1..Len(calls) : ~(calls[d].from = c /\ calls[d].at = idx)
            /\ \A j \in AtLine("done", c, idx) :
                  /\ events[j].s1 = "expand"
                  /\ events[j].rc = events[k].rc
                  /\ events[j].s2[2] = events[k].rc
                  /\ \E e \in AtLine("err", c, idx) :
                        /\ e < j
                        /\ events[e].s1 = "Variable Expansion error"
                        /\ events[e].file = calls[c].file
                        /\ events[e].line = idx
                  /\ \A e \in AtLine("err", c, idx) :
                        events[e].s1 = "Variable Expansion error"

\* the run has ended; the line that would set b to the value of a variable
\* that does not exist has failed after a line that was applied, b has the
\* value it had at start, and the root file has returned the code of the
\* expansion
C17_Witness ==
    /\ pc = "done"
    /\ calls[1].ret = ENOENT
    /\ store[<<"b">>] = InitialStore[<<"b">>]
    /\ store[<<"a">>] = <<"1">>
    /\ \E k \in FailedExpansions :
          /\ events[k].s1 = <<"b", " ", "$", "{", "z", "}">>
          /\ events[k].call = 1
          /\ events[k].idx = 3

-----------------------------------------------------------------------------
(* Lines longer than the working buffer *)

\* positions of the observations of lines without a variable reference,
\* whose expanded form is the line itself, that are longer than the working
\* buffer
LongLines ==
    {k \in EventsOf("line") :
        FirstIdx(events[k].s1, "$") = 0 /\ Len(events[k].s1) > WorkbufSize}

\* C18: a line whose expanded form is longer than the working buffer fails in
\* the expansion: it is not handed to ProcessConfigLine, neither whole nor
\* cut, no set-call is made for it, and it ends with an error.
C18_LongLineIsExpansionError ==
    \A k \in LongLines :
        /\ events[k].rc # EOK
        /\ events[k].s2 = NULL
        /\ AtLine("set", events[k].call, events[k].idx) = {}
        /\ \A j \in AtLine("done", events[k].call, events[k].idx) :
              events[j].s1 = "expand" /\ events[j].rc # EOK

-----------------------------------------------------------------------------
(* Termination *)

\* the paths that the lines of a text make the loader open: the targets of
\* its @include and @require lines and, by their names alone, the entries
\* of the directories of its @includedir lines
TargetsOfLine(l) ==
    IF ArgOf(l, INCLUDE) # NULL THEN {ArgOf(l, INCLUDE)}
    ELSE IF ArgOf(l, REQUIRE) # NULL THEN {ArgOf(l, REQUIRE)}
    ELSE IF ArgOf(l, INCLUDEDIR) # NULL /\ ArgOf(l, INCLUDEDIR) \in DOMAIN Dirs
    THEN Dirs[ArgOf(l, INCLUDEDIR)] \cup DotEntries
    ELSE {}

\* the paths that a text makes the loader open when it is processed: none
\* when the text does not begin with the tag
TextEdges(text) ==
    IF text = NULL \/ ~IsPrefix(CONFIG_TAG, text) THEN {}
    ELSE LET ls == SplitLines(text)
         IN  UNION {TargetsOfLine(ls[i]) : i \in 1..Len(ls)}

\* the edges that leave the files other than the root file
FileEdges == [p \in DOMAIN Files |-> TextEdges(Files[p])]

\* the edges of the include graph that leave a path: none when nothing is
\* loaded from the path
Edges(path) ==
    IF path = RootName THEN TextEdges(rootData)
    ELSE IF path \in DOMAIN Files THEN FileEdges[path]
    ELSE {}

\* the paths that can be reached from a set of paths
RECURSIVE Closure(_)
Closure(S) ==
    LET T == S \cup UNION {Edges(p) : p \in S}
    IN  IF T = S THEN S ELSE Closure(T)

\* no path that can be reached from the root file can be reached from itself
AcyclicGraph ==
    \A p \in Closure({RootName}) : p \notin Closure(Edges(p))

\* the top level call has returned and left LoadState as it found it
Completed ==
    /\ pc = "done"
    /\ stack = <<>>
    /\ pFileName = RootName
    /\ lineno = 0

\* C19: when the include graph that can be reached from the root file has no
\* cycle, the run reaches the state in which the top level call of
\* ProcessConfigFile has returned, the stack is empty, and the file name and
\* the line number of LoadState are those of the start.
C19_AcyclicRunsComplete == AcyclicGraph => <>Completed

\* the top level call has returned from a run through nested files and a
\* directory, four calls deep, and LoadState is as at the start
C19_Witness ==
    /\ Completed
    /\ AcyclicGraph
    /\ rootData = RootG
    /\ \E c \in 1..Len(calls) : calls[c].how = "dir" /\ calls[c].loaded
    /\ \E c1, c2, c3 \in 1..Len(calls) :
          calls[c1].from = 1 /\ calls[c2].from = c1 /\ calls[c3].from = c2

\* the files that can be reached from themselves
CyclicFiles == {p \in DOMAIN Files : p \in Closure(FileEdges[p])}

\* the calls that loaded a file that can be reached from itself
CyclicCalls ==
    {c \in 1..Len(calls) : calls[c].file \in CyclicFiles /\ calls[c].loaded}

\* the number of calls that enclose call c
RECURSIVE Depth(_)
Depth(c) == IF calls[c].from = 0 THEN 0 ELSE 1 + Depth(calls[c].from)

\* C20: nothing stops the recursion through a file that includes itself.
\* Every line of such a file that names a file already being processed
\* makes a nested call that loads it again, one level deeper; before that,
\* the call has made the set-calls of the lines above the directive again;
\* no call of such a file returns, and the run does not end.
C20_CycleRecursesWithoutEnd ==
    \A c \in CyclicCalls :
        /\ ~Returned(c)
        /\ pc # "done"
        /\ \A k \in EventsOf("line") :
              (/\ events[k].call = c
               /\ events[k].rc = EOK
               /\ ArgOf(events[k].s2, INCLUDE) = calls[c].file) =>
                  /\ \E d \in CyclicCalls :
                        /\ calls[d].from = c
                        /\ calls[d].at = events[k].idx
                        /\ calls[d].file = calls[c].file
                        /\ Depth(d) = Depth(c) + 1
                  /\ \A l \in AtLine("line", c, 2) :
                        \E j \in AtLine("set", c, 2) :
                           /\ events[j].rc = EOK
                           /\ events[j].s1 \o <<" ">> \o events[j].s2 = events[l].s1

\* the stack has reached the depth the model is bounded to, with the file
\* that includes itself in every frame above the root file, and a has been
\* set once for every one of these frames
C20_Witness ==
    /\ Len(stack) = MaxDepth
    /\ \A d \in 2..MaxDepth : stack[d].name \in CyclicFiles
    /\ Cardinality({j \in EventsOf("set") :
                       events[j].s1 = <<"a">> /\ events[j].s2 = <<"5">>}) = MaxDepth - 1
    /\ pc = "run"

-----------------------------------------------------------------------------
(* The order of the traversal *)

\* call d is call c or a call made, directly or through other calls, while
\* call c was processing its file
RECURSIVE Within(_, _)
Within(d, c) ==
    \/ d = c
    \/ d > c /\ calls[d].from # 0 /\ Within(calls[d].from, c)

\* C21: for every nested call of ProcessConfigFile, made by line k of the
\* calling file, every set-call made within the nested call (by its file or
\* by files loaded from it) comes after every set-call of the lines before k
\* of the calling file and before every set-call of its lines after k.
C21_DepthFirst ==
    \A c \in 1..Len(calls) :
        calls[c].from # 0 =>
            \A j \in EventsOf("set") :
                Within(events[j].call, c) =>
                    \A i \in EventsOf("set") :
                        events[i].call = calls[c].from =>
                            /\ events[i].idx < calls[c].at => i < j
                            /\ events[i].idx > calls[c].at => j < i

\* the run has ended; line 2 of the root file loaded B and line 3 made a
\* set-call; line 4 of B loaded A between set-calls of lines 3 and 10 of B,
\* and A made set-calls
C21_Witness ==
    /\ pc = "done"
    /\ \E c, d \in 1..Len(calls) :
          /\ calls[c].file = <<"B">> /\ calls[c].from = 1 /\ calls[c].at = 2
          /\ calls[d].file = <<"A">> /\ calls[d].from = c /\ calls[d].at = 4
          /\ \E i \in EventsOf("set") : events[i].call = 1 /\ events[i].idx = 3
          /\ \E i \in EventsOf("set") : events[i].call = c /\ events[i].idx = 3
          /\ \E i \in EventsOf("set") : events[i].call = c /\ events[i].idx = 10
          /\ \E j \in EventsOf("set") : events[j].call = d

-----------------------------------------------------------------------------
(* The moment of the expansion *)

\* the values of the server when the observation at position k was made, as
\* the set-calls before k that the server accepted have left them
StoreAt(k) ==
    [n \in DOMAIN InitialStore |->
        LET w == {j \in EventsOf("set") :
                     j < k /\ events[j].rc = EOK /\ events[j].s1 = n}
        IN  IF w = {} THEN InitialStore[n]
            ELSE events[CHOOSE j \in w : \A i \in w : i <= j].s2]

\* C22: the result of expanding a line is the result of expanding its raw
\* text with the values the server has after all set-calls made before that
\* moment; for a line that expands, the resolved line is that expansion (it
\* begins with it when the expansion fills the cleared part of the working
\* buffer); every earlier line of the same file has ended before, with the
\* files it loaded.  The root file with the lines `a 1` and `c ${a}` sets c
\* to 1.
C22_ExpandedWhenProcessed ==
    /\ \A k \in EventsOf("line") :
          LET now == StoreAt(k)
              exp == ExpandedText(now, events[k].s1)
          IN  /\ events[k].rc = ExpansionResult(now, events[k].s1)
              /\ events[k].rc = EOK =>
                    IF Len(exp) < WorkbufSize THEN events[k].s2 = exp
                    ELSE IsPrefix(exp, events[k].s2)
              /\ \A j \in EventsOf("done") :
                    (events[j].call = events[k].call /\ events[j].idx < events[k].idx)
                        => j < k
              /\ \A c \in 1..Len(calls) :
                    (calls[c].from = events[k].call /\ calls[c].at < events[k].idx)
                        => /\ Returned(c)
                           /\ \A j \in EventsOf("set") :
                                 Within(events[j].call, c) => j < k
    /\ (pc = "done" /\ rootData = Join(<<CONFIG_TAG \o <<" ", "r">>,
                                         <<"a", " ", "1">>,
                                         <<"c", " ", "$", "{", "a", "}">>>>)) =>
          store[<<"c">>] = <<"1">>

\* the run over the root file with the lines `@include B` and `c ${a}` has
\* ended: c has the value 3 that the last line of B gave to a, not the value
\* a had when the run began
C22_Witness ==
    /\ pc = "done"
    /\ rootData = Join(<<CONFIG_TAG \o <<" ", "r">>,
                         INCLUDE \o <<" ", "B">>,
                         <<"c", " ", "$", "{", "a", "}">>>>)
    /\ InitialStore[<<"a">>] = <<"0">>
    /\ \E k \in EventsOf("line") :
          /\ events[k].call = 1
          /\ events[k].s1 = <<"c", " ", "$", "{", "a", "}">>
          /\ events[k].s2 = <<"c", " ", "3">>
    /\ store[<<"c">>] = <<"3">>

-----------------------------------------------------------------------------
(* The split of an assignment line *)

\* the set-calls made for the line observed at position k
SetCallsOf(k) ==
    {j \in EventsOf("set") :
        events[j].call = events[k].call /\ events[j].idx = events[k].idx}

\* C23: for a resolved assignment line that contains =, every set-call made
\* for the line has the text before the first = of the line as its name and
\* the text behind that = as its value; `a=b=c` makes the call set(a, b=c)
\* and `a b=c` the call set(a b, c).
C23_SplitAtFirstEquals ==
    \A k \in AssignmentLineEvents :
        LET L == events[k].s2
            p == FirstIdx(L, "=")
        IN  p # 0 =>
              /\ \A j \in SetCallsOf(k) :
                    /\ events[j].s1 = SubSeq(L, 1, p - 1)
                    /\ events[j].s2 = SubSeq(L, p + 1, Len(L))
              /\ (L \in {<<"a", "=", "b", "=", "c">>, <<"a", " ", "b", "=", "c">>}
                    /\ \E j \in EventsOf("done") :
                          events[j].call = events[k].call /\ events[j].idx = events[k].idx)
                    => SetCallsOf(k) # {}

\* white space: a space or a tab
Whitespace == {" ", "\t"}

\* index of the first white space character of s, 0 when there is none
FirstWhitespace(s) ==
    LET at == {j \in 1..Len(s) : s[j] \in Whitespace}
    IN  IF at = {} THEN 0 ELSE CHOOSE j \in at : \A k \in at : j <= k

\* s without the white space it begins with
RECURSIVE SkipWhitespace(_)
SkipWhitespace(s) ==
    IF s # <<>> /\ s[1] \in Whitespace THEN SkipWhitespace(Tail(s)) ELSE s

\* C24: for a resolved assignment line without =, every set-call made for
\* the line has the text before the first run of white space as its name and
\* the text behind the whole run as its value, so the value does not begin
\* with white space; a tab separates like a space.
C24_SplitAtWhitespaceRun ==
    \A k \in AssignmentLineEvents :
        LET L == events[k].s2
            p == FirstWhitespace(L)
        IN  (FirstIdx(L, "=") = 0 /\ p # 0) =>
              \A j \in SetCallsOf(k) :
                  /\ events[j].s1 = SubSeq(L, 1, p - 1)
                  /\ events[j].s2 = SkipWhitespace(SubSeq(L, p, Len(L)))
                  /\ events[j].s2 = <<>> \/ events[j].s2[1] \notin Whitespace

-----------------------------------------------------------------------------
(* Errors of nested files *)

\* the calls made by @include and @require lines that have returned
DirectiveCalls == {c \in 1..Len(calls) : calls[c].how = "wait" /\ Returned(c)}

\* positions of the observations that a line of call p behind line n has
\* ended with an error
LaterFailures(p, n) ==
    {k \in EventsOf("done") :
        events[k].call = p /\ events[k].idx > n /\ events[k].rc # EOK}

\* C25: when the call made by an @include or @require line has returned e,
\* the line ends with e; when e is an error, it is the result of the
\* including file after the line, and the including file returns e unless a
\* later line of it fails.  An @require line ends with EOK only when its
\* target was loaded and returned EOK.
C25_NestedErrorPropagates ==
    \A c \in DirectiveCalls :
        /\ \A k \in DirectiveDone(c) :
              /\ events[k].rc = calls[c].ret
              /\ calls[c].ret # EOK => events[k].s2[2] = calls[c].ret
              /\ (Mandatory(c) /\ events[k].rc = EOK) =>
                    (calls[c].loaded /\ ~Unloadable(calls[c].file))
        /\ (calls[c].ret # EOK /\ Returned(calls[c].from)
              /\ LaterFailures(calls[c].from, calls[c].at) = {}) =>
                 calls[calls[c].from].ret = calls[c].ret

\* the run has ended; file A, which exists and is not mandatory, returned an
\* error of one of its lines, and line 4 of B, which includes it, ended with
\* that error; B returned an error to the root file, whose later line
\* succeeded and which returned the error of B
C25_Witness ==
    /\ pc = "done"
    /\ \E b, a \in DirectiveCalls :
          /\ calls[b].file = <<"B">> /\ calls[b].from = 1 /\ calls[b].at = 2
          /\ calls[a].file = <<"A">> /\ calls[a].from = b /\ ~Mandatory(a)
          /\ calls[a].loaded /\ calls[a].ret = EACCES
          /\ \E k \in DirectiveDone(a) : events[k].rc = EACCES
          /\ calls[b].ret # EOK
          /\ \E k \in EventsOf("done") :
                events[k].call = 1 /\ events[k].idx = 3 /\ events[k].rc = EOK
          /\ calls[1].ret = calls[b].ret

-----------------------------------------------------------------------------
(* The @config line *)

\* the line the loader is about to process is an @config line
AtConfigLine ==
    /\ InData
    /\ \E L \in {CurrentLine} :
          L.rc = EOK /\ L.class = "directive" /\ L.tok = CONFIG_TAG

\* what a step adds to the history
NewEvents == SubSeq(events', Len(events) + 1, Len(events'))

\* C26: the step that processes an @config line, with or without text
\* behind the directive, ends the line with EOK; it makes no call of
\* ProcessConfigFile and no set-call, the server keeps its values, the
\* required flag and the file name stay as they are and the line number is
\* the one of the next line; the description is printed in verbose mode and
\* nothing is printed otherwise.
C26_ConfigLineChangesNothing ==
    [][AtConfigLine =>
          /\ NewEvents[Len(NewEvents)].ev = "done"
          /\ NewEvents[Len(NewEvents)].rc = EOK
          /\ calls' = calls
          /\ Len(stack') = Len(stack)
          /\ store' = store
          /\ required' = required
          /\ pFileName' = pFileName
          /\ lineno' = lineno + 1
          /\ \A j \in 1..Len(NewEvents) : NewEvents[j].ev \in {"line", "out", "done"}
          /\ verbose <=> \E j \in 1..Len(NewEvents) : NewEvents[j].ev = "out"]_vars

-----------------------------------------------------------------------------
(* Classification *)

\* the kinds of line end that follow a directive dispatch
DirectiveKinds == {"config", "include", "require", "includedir", "unknown", "nested"}

\* the calls of ProcessConfigFile made by the line observed at position k
CallsOfLine(k) ==
    {c \in 1..Len(calls) :
        calls[c].from = events[k].call /\ calls[c].at = events[k].idx}

\* the messages the directives print for the line that ended at position j:
\* the history between the observation of the line at k and its end
DirectiveOutput(k, j) ==
    {i \in EventsOf("out") :
        /\ k < i /\ i < j
        /\ events[i].call = events[k].call
        /\ events[i].s1 \in {"Processing", "Including", "Processing directory"}}

\* C27: every line that has been expanded successfully and has ended was
\* handled in exactly one way, selected by the first character of the
\* resolved line: an empty line or a line beginning with # ended with EOK
\* without a set-call and without a call of ProcessConfigFile; a line
\* beginning with @ ended in the directive dispatch without a set-call;
\* every other line ended in the assignment applier without a call of
\* ProcessConfigFile and without output of a directive.
C27_ClassifiedByFirstCharacter ==
    \A k \in EventsOf("line") :
        events[k].rc = EOK =>
            LET L == events[k].s2
                ends == {j \in EventsOf("done") :
                            events[j].call = events[k].call
                            /\ events[j].idx = events[k].idx}
            IN  /\ Cardinality(ends) <= 1
                /\ \A j \in ends :
                      IF L = <<>> \/ L[1] = "#"
                      THEN /\ events[j].s1 = "ignore"
                           /\ events[j].rc = EOK
                           /\ SetCallsOf(k) = {}
                           /\ CallsOfLine(k) = {}
                           /\ DirectiveOutput(k, j) = {}
                      ELSE IF L[1] = "@"
                      THEN /\ events[j].s1 \in DirectiveKinds
                           /\ SetCallsOf(k) = {}
                      ELSE /\ events[j].s1 = "assignment"
                           /\ CallsOfLine(k) = {}
                           /\ DirectiveOutput(k, j) = {}

\* the run has ended; a line that begins with ${ in its file was expanded to
\* a comment and ignored; a directive line has loaded a file and an
\* assignment line has made a set-call
C27_Witness ==
    /\ pc = "done"
    /\ \E k \in EventsOf("line"), j \in EventsOf("done") :
          /\ events[k].s1 = <<"$", "{", "h", "}", "x">>
          /\ events[k].s2 = <<"#", "x">>
          /\ events[j].call = events[k].call /\ events[j].idx = events[k].idx
          /\ events[j].s1 = "ignore"
    /\ \E k \in EventsOf("line") :
          events[k].rc = EOK /\ events[k].s2 # <<>> /\ events[k].s2[1] = "@"
          /\ \E c \in CallsOfLine(k) : calls[c].loaded
    /\ \E k \in EventsOf("line") :
          events[k].rc = EOK /\ Classify(events[k].s2) = "assignment"
          /\ SetCallsOf(k) # {}

-----------------------------------------------------------------------------
(* Line splitting *)

\* the number of newline characters of a text
Newlines(text) == Cardinality({k \in 1..Len(text) : text[k] = NL})

\* the text behind the last newline of a text
RECURSIVE AfterLastNewline(_)
AfterLastNewline(text) ==
    IF FirstIdx(text, NL) = 0 THEN text
    ELSE AfterLastNewline(SubSeq(text, FirstIdx(text, NL) + 1, Len(text)))

\* C28: a loaded file with n newline characters that has returned had
\* exactly n + 1 lines processed, under the line numbers 1..n+1, each of them
\* ended once, the failed ones too; the last one is the text behind the last
\* newline, and when that text is an assignment with a name and a value, its
\* set-call has been made.  While the file is processed the line number is
\* the number of lines that have ended plus one.
C28_WholeBufferSplit ==
    \A c \in 1..Len(calls) :
        calls[c].loaded =>
            LET text == FileData(calls[c].file)
                n == Newlines(text)
                le == CallEvents(c, "line")
                de == CallEvents(c, "done")
                last == AfterLastNewline(text)
            IN  /\ \A j \in 1..Len(le) : le[j].line = j /\ le[j].idx = j
                /\ \A j \in 1..Len(de) : de[j].line = j /\ de[j].idx = j
                /\ (stack # <<>> /\ Top.call = c /\ Top.pc = "data") =>
                      lineno = Len(de) + 1
                /\ Returned(c) =>
                      /\ Len(le) = n + 1
                      /\ Len(de) = n + 1
                      /\ le[n + 1].s1 = last
                      /\ (last \in {<<"b", "=", "2">>, <<"b", "=", "5">>}) =>
                            \E j \in EventsOf("set") :
                                /\ events[j].call = c
                                /\ events[j].idx = n + 1
                                /\ events[j].s1 = <<"b">>

\* the run has ended; file A, whose last line `b=2` has no newline behind it
\* and whose lines 2 and 3 failed, has had its four lines processed and b
\* set; file B, which ends with a newline, has had an empty eleventh line
\* processed
C28_Witness ==
    /\ pc = "done"
    /\ \E c \in 1..Len(calls) :
          /\ calls[c].file = <<"A">> /\ calls[c].loaded /\ Returned(c)
          /\ Len(CallEvents(c, "done")) = 4
          /\ CallEvents(c, "done")[2].rc # EOK
          /\ CallEvents(c, "done")[3].rc # EOK
          /\ \E j \in EventsOf("set") :
                events[j].call = c /\ events[j].idx = 4 /\ events[j].s2 = <<"2">>
    /\ \E c \in 1..Len(calls) :
          /\ calls[c].file = <<"B">> /\ Returned(c)
          /\ Len(CallEvents(c, "line")) = 11
          /\ CallEvents(c, "line")[11].s1 = <<>>
          /\ CallEvents(c, "line")[11].line = 11

-----------------------------------------------------------------------------
(* The working buffer between lines *)

\* C29: the resolved line handed to ProcessConfigLine is the expansion of
\* the current raw line with the values the server has at that moment, and
\* nothing else: no bytes that an earlier line of the same file, or a line
\* of a file processed in between, left in the working buffer.
C29_NoResidue ==
    \A k \in EventsOf("line") :
        events[k].rc = EOK =>
            events[k].s2 = ExpandedText(StoreAt(k), events[k].s1)

-----------------------------------------------------------------------------
(* The first line of a loaded file *)

\* C30: line 1 of every file that has been loaded goes to the @config
\* handler and ends with EOK; no error is logged for it.
C30_FirstLineIsConfig ==
    \A c \in 1..Len(calls) :
        calls[c].loaded =>
            /\ \A k \in EventsOf("done") :
                  (events[k].call = c /\ events[k].idx = 1) =>
                      events[k].s1 = "config" /\ events[k].rc = EOK
            /\ \A k \in EventsOf("err") :
                  ~(events[k].call = c /\ events[k].idx = 1)

====
